---- MODULE Spec2Model ----
(***************************************************************************)
(* Dynamic Cheatsheet MCP service (src/dc.py): the session-keyed SQLite    *)
(* store of cheatsheets, the cached prompt templates and the two tools     *)
(* prepare_solve_context and update_cheatsheet.                            *)
(*                                                                         *)
(* Text is a sequence of one-character strings, the placeholders of the    *)
(* curator template included; the two cheatsheet tags of the curator's     *)
(* output, whose extraction is not in src/, are single tokens.             *)
(***************************************************************************)
EXTENDS Integers, Sequences, FiniteSets, TLC

VARIABLES
    table,   \* rows of the cheatsheets table: [session_id, content, updated_at]
    clock,   \* CURRENT_TIMESTAMP, in seconds, as the latest write read it
    files,   \* per prompt path: the text of the file, None when it is missing
    cache,   \* per prompt path: the text held by the lru_cache of _read_prompt
    call,    \* per client: the tool call in flight or the last one completed
    held,    \* history: per session, the versions it held and has since replaced
    render,  \* one rendering of the curator template: its inputs and its result
    config   \* the environment, and the settings read from it at import and in main

vars == <<table, clock, files, cache, call, held, render, config>>

----------------------------------------------------------------------------
(* Bounds *)

MaxLen == 2      \* most letters of a text handed to set, or enclosed by the curator
MaxClock == 1    \* latest second the clock of the store reaches
MaxTemplate == 2 \* longest template rendered, in pieces
MaxEnv == 2      \* longest value of an environment variable, in characters

----------------------------------------------------------------------------
(* Constants of the program *)

DEFAULT_CHEATSHEET == <<"(", "e", "m", "p", "t", "y", ")">>

GENERATOR_PROMPT_FILE == "generator_prompt.txt"
CURATOR_PROMPT_FILE == "curator_prompt_for_dc_cumulative.txt"
Paths == {GENERATOR_PROMPT_FILE, CURATOR_PROMPT_FILE}

(* the placeholders of the curator template, character by character, and one
   the service never binds *)
PREVIOUS_CHEATSHEET_MARK ==
    <<"[", "[", "P", "R", "E", "V", "I", "O", "U", "S", "_", "C", "H",
      "E", "A", "T", "S", "H", "E", "E", "T", "]", "]">>
QUESTION_MARK ==
    <<"[", "[", "Q", "U", "E", "S", "T", "I", "O", "N", "]", "]">>
MODEL_ANSWER_MARK ==
    <<"[", "[", "M", "O", "D", "E", "L", "_", "A", "N", "S", "W", "E",
      "R", "]", "]">>
OtherMark ==
    <<"[", "[", "O", "T", "H", "E", "R", "]", "]">>

OpenTag == "<cheatsheet>"
CloseTag == "</cheatsheet>"

(* the characters str.strip() removes: those str.isspace() holds of. Of
   Latin-1 they are tab, line feed, vertical tab, form feed, carriage
   return, the four separators 1C to 1F, the space, NEL (85) and the
   no-break space (A0); a string of this module cannot hold a character
   beyond Latin-1 *)
Whitespace ==
    {" ", "\t", "\n", "\r", "\f", "", "", "", "", "", "", " "}

(* the characters int() and float() skip at both ends: the same but for the
   four separators 1C to 1F *)
NumericWhitespace ==
    {" ", "\t", "\n", "\r", "\f", "", "", " "}

(* Inputs *)
SessionIds == {"", "s1", "s2"}
Clients == {"c1", "c2"}
OneSession == {"", "s1"}
NamedSessions == SessionIds \ {""}
Letters == {"a"}

RECURSIVE SeqsUpTo(_, _)
SeqsUpTo(S, n) ==
    IF n = 0 THEN {<<>>}
    ELSE LET shorter == SeqsUpTo(S, n - 1)
         IN  shorter \cup {Append(t, x) : t \in shorter, x \in S}

(* the texts handed to set and enclosed in the curator's output: up to
   MaxLen letters, bare or with a space on both sides *)
Pads == {<<>>, <<" ">>}
Contents ==
    {pad \o body \o pad : pad \in Pads, body \in SeqsUpTo(Letters, MaxLen)}

(* curator outputs: untagged text, an unclosed block, a block closed before
   it opens, and a block with or without text around it *)
Bodies == Contents \cup {DEFAULT_CHEATSHEET}
Around == {<<>>, <<"a">>}
RawOutputs ==
    Contents
        \cup {<<OpenTag>> \o b : b \in Contents}
        \cup {<<CloseTag>> \o b \o <<OpenTag>> : b \in Contents}
        \cup {p \o <<OpenTag>> \o b \o <<CloseTag>> \o q :
                 b \in Bodies, p \in Around, q \in Around}

(* Optional[str]: None is the empty set, a value x is {x} *)
None == {}
Some(x) == {x}
TheValue(o) == CHOOSE x \in o : TRUE

(* the prompt files as installed, and the arguments of update_cheatsheet *)
PromptText ==
    [p \in Paths |->
        IF p = CURATOR_PROMPT_FILE
        THEN <<"c">> \o PREVIOUS_CHEATSHEET_MARK \o QUESTION_MARK
                 \o MODEL_ANSWER_MARK
        ELSE <<"g">>]
InstalledFiles == [p \in Paths |-> Some(PromptText[p])]
NoFiles == [p \in Paths |-> None]
Questions == {<<"q">>}
ModelOutputs == {<<"r">>}

----------------------------------------------------------------------------
(* str.strip() *)

TrimLeft(s, skipped) ==
    IF \A i \in 1..Len(s) : s[i] \in skipped THEN <<>>
    ELSE SubSeq(s,
                CHOOSE i \in 1..Len(s) :
                    s[i] \notin skipped /\ \A j \in 1..(i - 1) : s[j] \in skipped,
                Len(s))

TrimRight(s, skipped) ==
    IF \A i \in 1..Len(s) : s[i] \in skipped THEN <<>>
    ELSE SubSeq(s, 1,
                CHOOSE i \in 1..Len(s) :
                    s[i] \notin skipped
                        /\ \A j \in (i + 1)..Len(s) : s[j] \in skipped)

LStrip(s) == TrimLeft(s, Whitespace)

RStrip(s) == TrimRight(s, Whitespace)

Strip(s) == RStrip(LStrip(s))

(* x or y on strings *)
OrElse(x, y) == IF x # <<>> THEN x ELSE y

----------------------------------------------------------------------------
(* The cheatsheets table *)

Row(session_id, content, updated_at) ==
    [session_id |-> session_id, content |-> content, updated_at |-> updated_at]

(* mutant: the session check is lost *)
IsEmptySessionNever(session_id) == FALSE

(* if not session_id: raise ValueError *)
IsEmptySession(session_id) == session_id = ""

(* SELECT content FROM cheatsheets WHERE session_id = ? *)
SelectRows(tbl, session_id) == {r \in tbl : r.session_id = session_id}

(* CURRENT_TIMESTAMP is the clock of the system in whole seconds: a statement
   reads the second the write before it read, a later one or, the clock
   having been set back in between, an earlier one *)
CurrentTimestamp == 0..MaxClock

(* mutant: a row whose content does not change keeps its updated_at *)
UpsertKeepsStamp(tbl, session_id, content, now) ==
    IF \E r \in SelectRows(tbl, session_id) : r.content = content THEN tbl
    ELSE (tbl \ SelectRows(tbl, session_id)) \cup {Row(session_id, content, now)}

(* mutant: a plain INSERT on a table without the primary key *)
UpsertAppends(tbl, session_id, content, now) ==
    tbl \cup {Row(session_id, content, now)}

(* mutant: the conflict update has no key, it rewrites every row *)
UpsertEveryRow(tbl, session_id, content, now) ==
    {Row(r.session_id, content, now) : r \in tbl}
        \cup {Row(session_id, content, now)}

(* mutant: INSERT OR IGNORE, an existing row is kept *)
UpsertIgnore(tbl, session_id, content, now) ==
    IF SelectRows(tbl, session_id) # {} THEN tbl
    ELSE tbl \cup {Row(session_id, content, now)}

(* INSERT ... ON CONFLICT(session_id) DO UPDATE SET content, updated_at *)
Upsert(tbl, session_id, content, now) ==
    (tbl \ SelectRows(tbl, session_id)) \cup {Row(session_id, content, now)}

(* mutant: a session with no record reads as the empty text *)
GetCheatsheetNoDefault(tbl, session_id) ==
    LET rows == SelectRows(tbl, session_id)
    IN  IF rows = {} THEN <<>>
        ELSE (CHOOSE r \in rows : TRUE).content

(* _get_cheatsheet past its session check: fetchone, or the default *)
GetCheatsheet(tbl, session_id) ==
    LET rows == SelectRows(tbl, session_id)
    IN  IF rows = {} THEN DEFAULT_CHEATSHEET
        ELSE (CHOOSE r \in rows : TRUE).content

(* mutant: get-or-create, a read of an unseen session inserts the default *)
TableAfterGetCreates(tbl, session_id) ==
    IF SelectRows(tbl, session_id) # {} THEN tbl
    ELSE tbl \cup {Row(session_id, DEFAULT_CHEATSHEET, 0)}

(* the table once _get_cheatsheet has run: a SELECT, and nothing to commit *)
TableAfterGet(tbl, session_id) == tbl

(* mutant: the default is not substituted for blank content *)
NormalizeNoDefault(content) == Strip(content)

(* content.strip() or DEFAULT_CHEATSHEET *)
Normalize(content) == OrElse(Strip(content), DEFAULT_CHEATSHEET)

(* mutant: the early return is lost *)
SkipsWriteNever(content, previous) == FALSE

(* mutant: previous is compared with the content as given, not normalized *)
SkipsWriteRaw(content, previous) ==
    previous # None /\ content = TheValue(previous)

(* the early return of _set_cheatsheet: previous given and equal to normalized *)
SkipsWrite(content, previous) ==
    previous # None /\ Normalize(content) = TheValue(previous)

(* mutant: compare-and-swap, a write is dropped when the stored content is
   no longer the previous content *)
SetCheatsheetCAS(tbl, session_id, content, previous, now) ==
    IF SkipsWrite(content, previous) THEN tbl
    ELSE IF previous # None /\ GetCheatsheet(tbl, session_id) # TheValue(previous)
    THEN tbl
    ELSE Upsert(tbl, session_id, Normalize(content), now)

(* the table once _set_cheatsheet has run on a non-empty session *)
SetCheatsheet(tbl, session_id, content, previous, now) ==
    IF SkipsWrite(content, previous) THEN tbl
    ELSE Upsert(tbl, session_id, Normalize(content), now)

----------------------------------------------------------------------------
(* Settings read from the environment *)

CURATOR_TEMPERATURE_ENV == "CURATOR_TEMPERATURE"
CURATOR_MAX_TOKENS_ENV == "CURATOR_MAX_TOKENS"
MCP_PORT_ENV == "MCP_PORT"
EnvNames == {CURATOR_TEMPERATURE_ENV, CURATOR_MAX_TOKENS_ENV, MCP_PORT_ENV}

(* An int is its decimal numeral: "-" when negative, then the digits with no
   leading zero. A float is the double that float() rounds the text to:
   sign * mantissa * 2^exponent, where the mantissa is an odd whole number
   written as its decimal numeral, or one of inf and nan; zero has the
   mantissa "0" and the exponent 0, and -0.0 is 0.0, which it equals. So
   0.5 is 1 * 2^-1, 7.0 is 7 * 2^0 and 0.1 is 3602879701896397 * 2^-55. *)
DefaultMaxTokens == <<"4", "0", "9", "6">>
DefaultPort == <<"8", "0", "0", "0">>
Float(special, sign, mantissa, exponent) ==
    [special |-> special, sign |-> sign, mantissa |-> mantissa,
     exponent |-> exponent]
FloatZero == Float("", 1, <<"0">>, 0)
DefaultTemperature == FloatZero

(* int() raises on a text of more digits than sys.int_info.default_max_str_digits *)
MAX_STR_DIGITS == 4300

(* the decimal digits of Latin-1 *)
Digits == {"0", "1", "2", "3", "4", "5", "6", "7", "8", "9"}
DigitValue(ch) ==
    CASE ch = "0" -> 0 [] ch = "1" -> 1 [] ch = "2" -> 2 [] ch = "3" -> 3
      [] ch = "4" -> 4 [] ch = "5" -> 5 [] ch = "6" -> 6 [] ch = "7" -> 7
      [] ch = "8" -> 8 [] ch = "9" -> 9

(* the letters of inf, infinity, nan and the exponent mark, read in either
   case *)
Lower(ch) ==
    CASE ch = "A" -> "a" [] ch = "E" -> "e" [] ch = "F" -> "f"
      [] ch = "I" -> "i" [] ch = "N" -> "n" [] ch = "T" -> "t"
      [] ch = "Y" -> "y" [] OTHER -> ch

(* digits, with single underscores between them *)
IsDigitPart(text) ==
    /\ text # <<>>
    /\ text[1] \in Digits /\ text[Len(text)] \in Digits
    /\ \A i \in 1..Len(text) : text[i] \in Digits \cup {"_"}
    /\ \A i \in 1..(Len(text) - 1) : ~(text[i] = "_" /\ text[i + 1] = "_")

DigitsOf(text) == SelectSeq(text, LAMBDA ch : ch \in Digits)

(* the text past its sign, if it has one *)
Unsigned(text) ==
    IF text # <<>> /\ Head(text) \in {"+", "-"} THEN Tail(text) ELSE text
IsNegative(text) == text # <<>> /\ Head(text) = "-"

DropLeadingZeros(digits) ==
    IF \A i \in 1..Len(digits) : digits[i] = "0" THEN <<>>
    ELSE SubSeq(digits,
                CHOOSE i \in 1..Len(digits) :
                    digits[i] # "0" /\ \A j \in 1..(i - 1) : digits[j] = "0",
                Len(digits))

(* int(text) does not raise: white space around an optional sign and digits *)
IsIntLiteral(text) ==
    LET body == Unsigned(TrimRight(TrimLeft(text, NumericWhitespace),
                                   NumericWhitespace))
    IN  IsDigitPart(body) /\ Len(DigitsOf(body)) <= MAX_STR_DIGITS

(* int(text) *)
IntValue(text) ==
    LET signed == TrimRight(TrimLeft(text, NumericWhitespace),
                            NumericWhitespace)
        digits == DropLeadingZeros(DigitsOf(signed))
    IN  IF digits = <<>> THEN <<"0">>
        ELSE (IF IsNegative(signed) THEN <<"-">> ELSE <<>>) \o digits

(* the first place of text that holds ch, 0 when there is none *)
IndexOf(text, ch) ==
    IF \A i \in 1..Len(text) : text[i] # ch THEN 0
    ELSE CHOOSE i \in 1..Len(text) :
            text[i] = ch /\ \A j \in 1..(i - 1) : text[j] # ch

(* the parts of a float literal: its sign, and past it, in lower case, the
   digits before and after the point and the exponent after the mark *)
FloatParts(text) ==
    LET signed == TrimRight(TrimLeft(text, NumericWhitespace),
                            NumericWhitespace)
        body == [i \in 1..Len(Unsigned(signed)) |-> Lower(Unsigned(signed)[i])]
        mark == IndexOf(body, "e")
        mantissa == IF mark = 0 THEN body ELSE SubSeq(body, 1, mark - 1)
        point == IndexOf(mantissa, ".")
    IN  [negative |-> IsNegative(signed),
         body |-> body,
         whole |-> IF point = 0 THEN mantissa
                   ELSE SubSeq(mantissa, 1, point - 1),
         fraction |-> IF point = 0 THEN <<>>
                      ELSE SubSeq(mantissa, point + 1, Len(mantissa)),
         marked |-> mark # 0,
         exponent |-> IF mark = 0 THEN <<>>
                      ELSE SubSeq(body, mark + 1, Len(body))]

Infinities == {<<"i", "n", "f">>, <<"i", "n", "f", "i", "n", "i", "t", "y">>}
NotANumber == <<"n", "a", "n">>

(* float() rejects a literal of more than MAX_DIGITS digits past its leading
   zeros, or after its point, and reads an exponent beyond MAX_ABS_EXP, or
   of more than nine digits past its leading zeros, as MAX_ABS_EXP (the
   string-to-double conversion of CPython, Python/dtoa.c) *)
MAX_DIGITS == 1000000000
MAX_ABS_EXP == 1100000000

(* float(text) does not raise: white space around an optional sign and inf,
   infinity or nan, or digits with at most one point and an optional
   exponent *)
IsFloatLiteral(text) ==
    LET parts == FloatParts(text)
    IN  \/ parts.body \in Infinities \cup {NotANumber}
        \/ /\ parts.whole = <<>> \/ IsDigitPart(parts.whole)
           /\ parts.fraction = <<>> \/ IsDigitPart(parts.fraction)
           /\ parts.whole # <<>> \/ parts.fraction # <<>>
           /\ parts.marked => IsDigitPart(Unsigned(parts.exponent))
           /\ Len(DropLeadingZeros(DigitsOf(parts.whole)
                                       \o DigitsOf(parts.fraction))) <= MAX_DIGITS
           /\ Len(DigitsOf(parts.fraction)) <= MAX_DIGITS

(* the number a short run of digits denotes *)
RECURSIVE NumberOf(_)
NumberOf(digits) ==
    IF digits = <<>> THEN 0
    ELSE 10 * NumberOf(SubSeq(digits, 1, Len(digits) - 1))
             + DigitValue(digits[Len(digits)])

(* the exponent of a float literal *)
ExponentOf(text) ==
    LET digits == DropLeadingZeros(DigitsOf(text))
        size == IF Len(digits) > 9 THEN MAX_ABS_EXP ELSE NumberOf(digits)
    IN  IF IsNegative(text) THEN 0 - size ELSE size

(* Whole numbers beyond the integers of the model: the values of the
   decimal digits, the most significant first, with no leading zero; zero
   has no digit. *)
WholeOf(digits) ==
    LET kept == DropLeadingZeros(digits)
    IN  SubSeq([i \in 1..Len(kept) |-> DigitValue(kept[i])], 1, Len(kept))
NumeralOf(whole) ==
    IF Len(whole) = 0 THEN <<"0">>
    ELSE SubSeq([i \in 1..Len(whole) |->
                    <<"0", "1", "2", "3", "4", "5", "6", "7", "8", "9">>[whole[i] + 1]],
                1, Len(whole))
Zeros(count) == SubSeq([i \in 1..count |-> 0], 1, count)
IsOdd(whole) == Len(whole) > 0 /\ whole[Len(whole)] % 2 = 1
LessWhole(a, b) ==
    \/ Len(a) < Len(b)
    \/ /\ Len(a) = Len(b)
       /\ \E i \in 1..Len(a) : a[i] < b[i] /\ \A j \in 1..(i - 1) : a[j] = b[j]

(* 2 * whole: the carry into a place is 1 when the digit after it is 5 or
   more *)
Double(whole) ==
    LET low == [i \in 1..Len(whole) |->
                    (2 * whole[i]
                       + (IF i < Len(whole) /\ whole[i + 1] >= 5 THEN 1 ELSE 0))
                      % 10]
    IN  (IF Len(whole) > 0 /\ whole[1] >= 5 THEN <<1>> ELSE <<>>)
            \o SubSeq(low, 1, Len(whole))

(* whole \div 2: an odd digit before a place carries 10 into it *)
Halve(whole) ==
    LET all == [i \in 1..Len(whole) |->
                    (whole[i] + (IF i > 1 /\ whole[i - 1] % 2 = 1 THEN 10 ELSE 0))
                      \div 2]
    IN  SubSeq(all, IF Len(whole) > 0 /\ all[1] = 0 THEN 2 ELSE 1, Len(whole))

(* whole + 1 *)
Increment(whole) ==
    IF \A i \in 1..Len(whole) : whole[i] = 9
    THEN <<1>> \o Zeros(Len(whole))
    ELSE LET last == CHOOSE i \in 1..Len(whole) :
                        whole[i] # 9 /\ \A j \in (i + 1)..Len(whole) : whole[j] = 9
         IN  SubSeq([i \in 1..Len(whole) |->
                        IF i < last THEN whole[i]
                        ELSE IF i = last THEN whole[i] + 1 ELSE 0],
                    1, Len(whole))

(* whole * 2^times *)
RECURSIVE DoubleTimes(_, _)
DoubleTimes(whole, times) ==
    IF times = 0 \/ Len(whole) = 0 THEN whole
    ELSE IF times = 1 THEN Double(whole)
    ELSE DoubleTimes(DoubleTimes(whole, times \div 2), times - times \div 2)

(* A number cut after a binary place: the whole part kept, the bit just
   below the cut (half) and whether anything below that bit is not zero
   (lost). Cutting one place higher halves the kept part. *)
Cut(whole, half, lost) == [whole |-> whole, half |-> half, lost |-> lost]
CutHigher(cut) == Cut(Halve(cut.whole), IsOdd(cut.whole), cut.half \/ cut.lost)
RECURSIVE CutTimes(_, _)
CutTimes(cut, times) ==
    IF times = 0 THEN cut
    ELSE IF Len(cut.whole) = 0 THEN Cut(<<>>, FALSE, cut.half \/ cut.lost)
    ELSE IF times = 1 THEN CutHigher(cut)
    ELSE CutTimes(CutTimes(cut, times \div 2), times - times \div 2)

(* the cut of whole / 10^places at the units *)
CutDecimal(whole, places) ==
    LET size == Len(whole)
        below == [i \in 1..places |->
                    IF i <= places - size THEN 0 ELSE whole[size - places + i]]
    IN  Cut(IF size > places THEN SubSeq(whole, 1, size - places) ELSE <<>>,
            places > 0 /\ below[1] >= 5,
            \/ places > 0 /\ below[1] \notin {0, 5}
            \/ \E i \in 2..places : below[i] # 0)

(* 2^52 and 2^53: the mantissa of a double has 53 bits *)
TwoTo52 == <<4, 5, 0, 3, 5, 9, 9, 6, 2, 7, 3, 7, 0, 4, 9, 6>>
TwoTo53 == <<9, 0, 0, 7, 1, 9, 9, 2, 5, 4, 7, 4, 0, 9, 9, 2>>

(* round-half-even: the kept part of a cut, one more when what is below
   the cut is more than half a unit, or is half a unit and the kept part is
   odd *)
RoundCut(cut) ==
    IF cut.half /\ (cut.lost \/ IsOdd(cut.whole)) THEN Increment(cut.whole)
    ELSE cut.whole

(* the cut of a number of 2^53 or more at the first binary place, from
   place on, that leaves fewer than 53 bits above it *)
RECURSIVE CutAbove(_, _)
CutAbove(cut, place) ==
    IF LessWhole(cut.whole, TwoTo53) THEN [cut |-> cut, exponent |-> place]
    ELSE CutAbove(CutHigher(cut), place + 1)

(* the cut of digits * 2^scale / 10^places at the units, for the first
   scale, from scale on, that leaves 53 bits above the cut, or 1074, the
   place of the last bit of a subnormal double *)
RECURSIVE CutBelow(_, _, _)
CutBelow(scaled, places, scale) ==
    LET cut == CutDecimal(scaled, places)
    IN  IF scale >= 1074 \/ ~LessWhole(cut.whole, TwoTo52)
        THEN [cut |-> cut, exponent |-> 0 - scale]
        ELSE CutBelow(Double(scaled), places, scale + 1)

(* mantissa * 2^exponent with an odd mantissa *)
RECURSIVE OddMantissa(_, _)
OddMantissa(mantissa, exponent) ==
    IF IsOdd(mantissa) THEN [mantissa |-> mantissa, exponent |-> exponent]
    ELSE OddMantissa(Halve(mantissa), exponent + 1)

(* The double nearest to digits * 10^power, digits not zero; ties go to the
   even mantissa. The number is below 10^size, size the count of its digits
   before the point, and log2(10) lies between 3.3219 and 3.3220: that gives
   a binary place to start looking from which is not past the right one. *)
NearestDouble(sign, digits, power) ==
    LET size == Len(digits) + power
        given == IF power >= 0 THEN digits \o Zeros(power) ELSE digits
        places == IF power >= 0 THEN 0 ELSE 0 - power
        units == CutDecimal(given, places)
        bits == IF size >= 0 THEN (size * 33220) \div 10000 + 1
                ELSE (size * 33219) \div 10000 + 1
        scale == IF 52 - bits < 0 THEN 0
                 ELSE IF 52 - bits > 1074 THEN 1074 ELSE 52 - bits
        place == IF ((Len(units.whole) - 1) * 33219) \div 10000 - 52 < 1 THEN 1
                 ELSE ((Len(units.whole) - 1) * 33219) \div 10000 - 52
        found == IF LessWhole(units.whole, TwoTo53)
                 THEN CutBelow(DoubleTimes(given, scale), places, scale)
                 ELSE CutAbove(CutTimes(units, place), place)
        rounded == RoundCut(found.cut)
        odd == OddMantissa(rounded, found.exponent)
    IN  IF Len(rounded) = 0 THEN FloatZero
        ELSE IF \/ found.exponent > 971
                \/ found.exponent = 971 /\ ~LessWhole(rounded, TwoTo53)
        THEN Float("inf", sign, <<>>, 0)
        ELSE Float("", sign, NumeralOf(odd.mantissa), odd.exponent)

(* float(text): a number of 10^309 or more is beyond the largest double and
   one below 10^-324 is less than half the smallest *)
FloatValue(text) ==
    LET parts == FloatParts(text)
        sign == IF parts.negative THEN 0 - 1 ELSE 1
        digits == WholeOf(DigitsOf(parts.whole) \o DigitsOf(parts.fraction))
        power == ExponentOf(parts.exponent) - Len(DigitsOf(parts.fraction))
    IN  IF parts.body = NotANumber THEN Float("nan", 1, <<>>, 0)
        ELSE IF parts.body \in Infinities THEN Float("inf", sign, <<>>, 0)
        ELSE IF Len(digits) = 0 THEN FloatZero
        ELSE IF Len(digits) + power > 309 THEN Float("inf", sign, <<>>, 0)
        ELSE IF Len(digits) + power < 0 - 323 THEN FloatZero
        ELSE NearestDouble(sign, digits, power)

(* _parse_int: int(value), the fallback on TypeError (None) or ValueError *)
ParseInt(value, fallback) ==
    IF value # None /\ IsIntLiteral(TheValue(value))
    THEN IntValue(TheValue(value))
    ELSE fallback

(* _parse_float: float(value), the fallback on TypeError or ValueError *)
ParseFloat(value, fallback) ==
    IF value # None /\ IsFloatLiteral(TheValue(value))
    THEN FloatValue(TheValue(value))
    ELSE fallback

(* the values of an environment variable: unset, every text of up to MaxEnv
   characters (a digit, the point, a letter, a sign, a space), and a few
   longer literals *)
EnvChars == {"7", ".", "x", "-", " "}
EnvWords ==
    {<<"i", "n", "f">>, <<"-", "I", "n", "f">>, <<"n", "a", "n">>,
     <<"7", "e", "7">>, <<"7", "E", "-", "7">>, <<"7", "_", "7">>,
     <<"_", "7">>, <<"+", "7">>, <<"0", ".", "0">>, <<"7", ".", "0">>,
     <<"0", "7">>, <<"\t", "7", "\n">>, <<"7", "e", "9", "9", "9">>}
EnvValues ==
    {None} \cup {Some(v) : v \in SeqsUpTo(EnvChars, MaxEnv) \cup EnvWords}

(* the environments: one variable takes every value, the other two are
   unset or hold the same unparseable text *)
Environments ==
    {[n \in EnvNames |-> IF n = name THEN v ELSE w] :
        name \in EnvNames, v \in EnvValues, w \in {None, Some(<<"x">>)}}

(* the bindings of config.env: none, or one value for every variable *)
DotenvFiles ==
    {[n \in EnvNames |-> b] : b \in {None, Some(<<"9">>), Some(<<"x">>)}}

(* os.getenv(name, default) *)
GetEnv(env, name, default) == IF env[name] = None THEN default ELSE TheValue(env[name])

(* load_dotenv("config.env"): a binding of the file sets a variable that is
   not set yet, and leaves one that is set, empty or not *)
LoadDotenv(env, dotenv) ==
    [n \in EnvNames |-> IF env[n] = None THEN dotenv[n] ELSE env[n]]

(* the settings before the module is imported, given the environment and
   the bindings of config.env *)
Unloaded(env, dotenv) ==
    [env |-> env, dotenv |-> dotenv, stage |-> "unloaded",
     temperature |-> DefaultTemperature, max_tokens |-> DefaultMaxTokens,
     port |-> <<>>, error |-> ""]

(* the settings of a module imported with no variable set and no config.env *)
ImportedUnset ==
    [Unloaded([n \in EnvNames |-> None], [n \in EnvNames |-> None])
        EXCEPT !.stage = "imported"]

----------------------------------------------------------------------------
(* Prompt templates: _read_prompt under lru_cache *)

(* the cache and the files are functions of the path to Optional text; the
   steps of a load are the actions LookupTemplate, ReadPromptFile and
   ReadPromptStore below *)

----------------------------------------------------------------------------
(* Rendering of the curator prompt: three str.replace calls in a row *)

(* s.replace(old, new) on a flat string: the occurrences of old are found
   from the left and do not overlap; an empty old matches before every
   character and at the end *)
RECURSIVE Replace(_, _, _)
Replace(s, old, new) ==
    IF old = <<>>
    THEN IF s = <<>> THEN new
         ELSE new \o <<Head(s)>> \o Replace(Tail(s), old, new)
    ELSE IF Len(s) < Len(old) THEN s
    ELSE IF SubSeq(s, 1, Len(old)) = old
    THEN new \o Replace(SubSeq(s, Len(old) + 1, Len(s)), old, new)
    ELSE <<Head(s)>> \o Replace(Tail(s), old, new)

(* curator_template.replace(...).replace(...).replace(...) *)
Render(curator_template, current_cheatsheet, question, model_output) ==
    Replace(Replace(Replace(curator_template,
                            PREVIOUS_CHEATSHEET_MARK, current_cheatsheet),
                    QUESTION_MARK, question),
            MODEL_ANSWER_MARK, model_output)

----------------------------------------------------------------------------
(* extract_cheatsheet: the text between the tags, trimmed, or the fallback *)

RECURSIVE IndexFrom(_, _, _)
IndexFrom(s, x, i) ==
    IF i > Len(s) THEN 0
    ELSE IF s[i] = x THEN i
    ELSE IndexFrom(s, x, i + 1)

ExtractCheatsheet(raw, fallback) ==
    LET i == IndexFrom(raw, OpenTag, 1)
        j == IF i = 0 THEN 0 ELSE IndexFrom(raw, CloseTag, i + 1)
    IN  IF i = 0 \/ j = 0 THEN fallback
        ELSE Strip(SubSeq(raw, i + 1, j - 1))

(* history: the curator's output held a block with text in it *)
FoundCheatsheet(curator_output) == ExtractCheatsheet(curator_output, <<>>) # <<>>

(* mutant: no fallback to the current cheatsheet, a miss yields the default *)
NewCheatsheetNoFallback(curator_output, current_cheatsheet) ==
    LET new == ExtractCheatsheet(curator_output, <<>>)
    IN  IF Strip(new) = <<>> THEN DEFAULT_CHEATSHEET ELSE new

(* update_cheatsheet, from the curator's output to the text handed to set *)
NewCheatsheet(curator_output, current_cheatsheet) ==
    LET new == OrElse(ExtractCheatsheet(curator_output, current_cheatsheet),
                      current_cheatsheet)
    IN  IF Strip(new) = <<>> THEN DEFAULT_CHEATSHEET ELSE new

----------------------------------------------------------------------------
(* Tool calls *)

CallRec(op, pc, session, content, previous, result, io) ==
    [op |-> op, pc |-> pc, session |-> session, content |-> content,
     previous |-> previous, result |-> result, io |-> io, found |-> FALSE,
     path |-> "", template |-> None, question |-> <<>>, model_output |-> <<>>,
     request |-> None]

(* the arguments language_model.generate is called with *)
GenerateRequest(prompt) ==
    [history |-> <<[role |-> "user", content |-> prompt]>>,
     temperature |-> config.temperature,
     max_tokens |-> config.max_tokens,
     allow_code_execution |-> FALSE]

(* no rendering made yet *)
NoRender ==
    [template |-> <<>>, previous |-> <<>>, question |-> <<>>,
     model_output |-> <<>>, prompt |-> None]

NoCall == CallRec("none", "done", "", <<>>, None, "", <<>>)

(* a finished call that raised before anything it was given was used *)
Raised(op, session, error, io) ==
    CallRec(op, "done", session, <<>>, None, error, io)

(* history: the version a write replaces joins the session's held versions *)
HeldAfter(h, tbl, session_id, content, previous) ==
    IF SkipsWrite(content, previous)
          \/ GetCheatsheet(tbl, session_id) = Normalize(content)
    THEN h
    ELSE [h EXCEPT ![session_id] = @ \cup {GetCheatsheet(tbl, session_id)}]

(* the previous values a direct caller of set is given to choose from *)
PreviousChoices(content) ==
    {None, Some(content), Some(Normalize(content))}

(* the store, the prompt files and the callers after module import *)
(* The stores an earlier run of the service can leave in cheatsheets.db:
   _init_db creates the table when it is missing and keeps the rows it
   finds. A row holds what _set_cheatsheet wrote for a named session, a
   normalized content, and is stamped at the latest by the second the
   service starts in, second 0. *)
StoredContents == {Normalize(content) : content \in Contents}
Stored(sessions, contents) ==
    {{Row(s, kept[s], 0) : s \in S} :
        S \in SUBSET sessions, kept \in [sessions -> contents]}

(* the service as imported: the store as the last run left it, nothing
   cached, no call under way, no version held in this run *)
InitService ==
    /\ table \in Stored(NamedSessions, StoredContents)
    /\ clock = 0
    /\ files \in {[p \in Paths |-> IF p \in P THEN InstalledFiles[p] ELSE None] :
                     P \in SUBSET Paths}
    /\ cache = NoFiles
    /\ call = [c \in Clients |-> NoCall]
    /\ held = [s \in SessionIds |-> {}]

(* the stores the runs below start from: none, or a text for session s1 *)
StartStores == Stored({"s1"}, {<<"a">>})

Init ==
    /\ InitService
    /\ table \in StartStores
    /\ render = NoRender
    /\ config = ImportedUnset

(* _get_cheatsheet(session_id) *)
Get(c, session_id) ==
    /\ call[c].pc = "done"
    /\ IF IsEmptySession(session_id)
       THEN /\ call' = [call EXCEPT ![c] = Raised("get", session_id, "InvalidSession", <<>>)]
            /\ table' = table
       ELSE /\ call' = [call EXCEPT ![c] =
                    CallRec("get", "done", session_id,
                            GetCheatsheet(table, session_id), None, "ok",
                            <<"select">>)]
            /\ table' = TableAfterGet(table, session_id)
    /\ UNCHANGED <<clock, files, cache, held, render, config>>

(* _set_cheatsheet(session_id, content, previous_content) *)
Set(c, session_id, content, previous) ==
    /\ call[c].pc = "done"
    /\ IF IsEmptySession(session_id)
       THEN /\ call' = [call EXCEPT ![c] =
                    Raised("set", session_id, "InvalidSession", <<>>)]
            /\ UNCHANGED <<table, clock, held>>
       ELSE /\ held' = HeldAfter(held, table, session_id, content, previous)
            /\ call' = [call EXCEPT ![c] =
                    CallRec("set", "done", session_id, content, previous, "ok",
                            IF SkipsWrite(content, previous) THEN <<>>
                            ELSE <<"upsert">>)]
            /\ IF SkipsWrite(content, previous)
               THEN UNCHANGED <<table, clock>>
               ELSE \E now \in CurrentTimestamp :
                       /\ table' = SetCheatsheet(table, session_id, content,
                                                 previous, now)
                       /\ clock' = now
    /\ UNCHANGED <<files, cache, render, config>>

(* prepare_solve_context(session_id), its first line: _get_cheatsheet *)
PrepareSolveContext(c, session_id) ==
    /\ call[c].pc = "done"
    /\ IF IsEmptySession(session_id)
       THEN /\ call' = [call EXCEPT ![c] =
                    Raised("prepare", session_id, "InvalidSession", <<>>)]
            /\ table' = table
       ELSE /\ table' = TableAfterGet(table, session_id)
            /\ call' = [call EXCEPT ![c] =
                    [CallRec("prepare", "selected", session_id,
                             GetCheatsheet(table, session_id), None, "",
                             <<"select">>)
                        EXCEPT !.path = GENERATOR_PROMPT_FILE]]
    /\ UNCHANGED <<clock, files, cache, held, render, config>>

(* update_cheatsheet(session_id, question, model_output), its first line:
   _get_cheatsheet *)
UpdateStart(c, session_id) ==
    /\ call[c].pc = "done"
    /\ IF IsEmptySession(session_id)
       THEN /\ call' = [call EXCEPT ![c] =
                    Raised("update", session_id, "InvalidSession", <<>>)]
            /\ table' = table
       ELSE /\ table' = TableAfterGet(table, session_id)
            /\ \E question \in Questions, model_output \in ModelOutputs :
                  call' = [call EXCEPT ![c] =
                    [CallRec("update", "selected", session_id, <<>>,
                             Some(GetCheatsheet(table, session_id)), "",
                             <<"select">>)
                        EXCEPT !.path = CURATOR_PROMPT_FILE,
                               !.question = question,
                               !.model_output = model_output]]
    /\ UNCHANGED <<clock, files, cache, held, render, config>>

(* the tool calls _read_prompt(path); the lru_cache wrapper looks the path
   up: a hit returns the cached text, a miss calls the function. A hit ends
   prepare_solve_context, which returns the cheatsheet and the template. *)
LookupTemplate(c) ==
    /\ call[c].pc = "selected"
    /\ call' = [call EXCEPT ![c] =
            IF cache[call[c].path] = None
            THEN [call[c] EXCEPT !.pc = "reading",
                                 !.io = Append(@, "load_template")]
            ELSE [call[c] EXCEPT
                     !.pc = IF call[c].op = "prepare" THEN "done" ELSE "loaded",
                     !.result = IF call[c].op = "prepare" THEN "ok" ELSE "",
                     !.template = cache[call[c].path],
                     !.io = Append(@, "load_template")]]
    /\ UNCHANGED <<table, clock, files, cache, held, render, config>>

(* functools.lru_cache looks the path up, calls _read_prompt on a miss and
   stores what it returned, without a lock held across the three: two first
   loads can both miss and both read, and the later store replaces the
   earlier one. *)

(* the body of _read_prompt: path.exists() and path.read_text(); the
   FileNotFoundError leaves the tool call *)
ReadPromptFile(c) ==
    /\ call[c].pc = "reading"
    /\ call' = [call EXCEPT ![c] =
            IF files[call[c].path] = None
            THEN [Raised(call[c].op, call[c].session, "TemplateNotFound",
                         Append(call[c].io, "read_file"))
                     EXCEPT !.path = call[c].path]
            ELSE [call[c] EXCEPT !.pc = "read",
                                 !.template = files[call[c].path],
                                 !.io = Append(@, "read_file")]]
    /\ UNCHANGED <<table, clock, files, cache, held, render, config>>

(* the lru_cache wrapper stores the text returned and returns it; with it
   _read_prompt and prepare_solve_context return, update_cheatsheet goes on *)
ReadPromptStore(c) ==
    /\ call[c].pc = "read"
    /\ cache' = [cache EXCEPT ![call[c].path] = call[c].template]
    /\ call' = [call EXCEPT
            ![c].pc = IF call[c].op = "update" THEN "loaded" ELSE "done",
            ![c].result = IF call[c].op = "update" THEN "" ELSE "ok"]
    /\ UNCHANGED <<table, clock, files, held, render, config>>

(* update_cheatsheet, the template in hand: the prompt is rendered and
   language_model.generate is called *)
UpdateGenerate(c) ==
    /\ call[c].pc = "loaded"
    /\ call' = [call EXCEPT ![c] =
            [call[c] EXCEPT
                !.pc = "curating",
                !.io = Append(@, "generate"),
                !.request =
                    Some(GenerateRequest(
                        Render(TheValue(call[c].template),
                               TheValue(call[c].previous),
                               call[c].question, call[c].model_output)))]]
    /\ UNCHANGED <<table, clock, files, cache, held, render, config>>

(* language_model.generate returns curator_output; the new cheatsheet is derived *)
CuratorReturns(c, curator_output) ==
    /\ call[c].pc = "curating"
    /\ call' = [call EXCEPT ![c].pc = "curated",
                            ![c].content =
                                NewCheatsheet(curator_output, TheValue(call[c].previous)),
                            ![c].found = FoundCheatsheet(curator_output)]
    /\ UNCHANGED <<table, clock, files, cache, held, render, config>>

(* mutant: a failed curation persists the default cheatsheet *)
CuratorRaisesStoresDefault(c) ==
    /\ call[c].pc = "curating"
    /\ call' = [call EXCEPT ![c] =
            Raised("update", call[c].session, "CurationFailed", call[c].io)]
    /\ \E now \in CurrentTimestamp :
          /\ table' = Upsert(table, call[c].session, DEFAULT_CHEATSHEET, now)
          /\ clock' = now
    /\ UNCHANGED <<files, cache, held, render, config>>

(* mutant: a failed curator call is made again *)
CuratorRaisesRetries(c) ==
    /\ call[c].pc = "curating"
    /\ call' = [call EXCEPT ![c].io = Append(@, "generate")]
    /\ UNCHANGED <<table, clock, files, cache, held, render, config>>

(* language_model.generate raises: the exception leaves update_cheatsheet *)
CuratorRaises(c) ==
    /\ call[c].pc = "curating"
    /\ call' = [call EXCEPT ![c] =
            Raised("update", call[c].session, "CurationFailed", call[c].io)]
    /\ UNCHANGED <<table, clock, files, cache, held, render, config>>

(* update_cheatsheet from its call of _set_cheatsheet to its return *)
UpdateCommit(c) ==
    LET r == call[c]
        skip == SkipsWrite(r.content, r.previous)
    IN  /\ r.pc = "curated"
        /\ held' = HeldAfter(held, table, r.session, r.content, r.previous)
        /\ call' = [call EXCEPT ![c].pc = "done", ![c].result = "ok",
                                ![c].io = IF skip THEN @ ELSE Append(@, "upsert")]
        /\ IF skip
           THEN UNCHANGED <<table, clock>>
           ELSE \E now \in CurrentTimestamp :
                   /\ table' = SetCheatsheet(table, r.session, r.content,
                                             r.previous, now)
                   /\ clock' = now
        /\ UNCHANGED <<files, cache, render, config>>

NextFor(C, S) ==
    \/ \E c \in C, s \in S : Get(c, s)
    \/ \E c \in C, s \in S, content \in Contents :
          \E previous \in PreviousChoices(content) :
              Set(c, s, content, previous)
    \/ \E c \in C, s \in S : PrepareSolveContext(c, s)
    \/ \E c \in C, s \in S : UpdateStart(c, s)
    \/ \E c \in C : LookupTemplate(c)
    \/ \E c \in C : ReadPromptFile(c)
    \/ \E c \in C : ReadPromptStore(c)
    \/ \E c \in C : UpdateGenerate(c)
    \/ \E c \in C, raw \in RawOutputs : CuratorReturns(c, raw)
    \/ \E c \in C : CuratorRaises(c)
    \/ \E c \in C : UpdateCommit(c)

(* update_cheatsheet calls alone, the curator's output being untagged or a
   block and nothing else *)
BlockOutputs == {<<>>} \cup {<<OpenTag>> \o b \o <<CloseTag>> : b \in Bodies}

UpdatesFor(C, S) ==
    \/ \E c \in C, s \in S : UpdateStart(c, s)
    \/ \E c \in C : LookupTemplate(c)
    \/ \E c \in C : ReadPromptFile(c)
    \/ \E c \in C : ReadPromptStore(c)
    \/ \E c \in C : UpdateGenerate(c)
    \/ \E c \in C, raw \in BlockOutputs : CuratorReturns(c, raw)
    \/ \E c \in C : CuratorRaises(c)
    \/ \E c \in C : UpdateCommit(c)

(* one client, every operation *)
Next == NextFor({"c1"}, OneSession)

Spec == Init /\ [][Next]_vars

(* two clients calling update_cheatsheet concurrently on one session *)
InitUpdates == Init /\ files = InstalledFiles

NextUpdates == UpdatesFor(Clients, OneSession)

SpecUpdates == InitUpdates /\ [][NextUpdates]_vars

(* _read_prompt called directly by two threads while the prompt files are
   edited and removed *)
FileTexts(path) == {PromptText[path], <<"e">>}

(* _read_prompt(path) called on its own: the lookup of the lru_cache wrapper *)
ReadPromptStart(c, path) ==
    /\ call[c].pc = "done"
    /\ call' = [call EXCEPT ![c] =
            IF cache[path] # None
            THEN [CallRec("read_prompt", "done", "", <<>>, None, "ok", <<>>)
                     EXCEPT !.path = path, !.template = cache[path]]
            ELSE [CallRec("read_prompt", "reading", "", <<>>, None, "", <<>>)
                     EXCEPT !.path = path]]
    /\ UNCHANGED <<table, clock, files, cache, held, render, config>>

(* the environment: a prompt file is written or rewritten *)
EditFile(path, text) ==
    /\ files[path] # Some(text)
    /\ files' = [files EXCEPT ![path] = Some(text)]
    /\ UNCHANGED <<table, clock, cache, call, held, render, config>>

(* the environment: a prompt file is removed *)
RemoveFile(path) ==
    /\ files[path] # None
    /\ files' = [files EXCEPT ![path] = None]
    /\ UNCHANGED <<table, clock, cache, call, held, render, config>>

NextTemplates ==
    \/ \E c \in Clients, path \in Paths : ReadPromptStart(c, path)
    \/ \E c \in Clients : ReadPromptFile(c)
    \/ \E c \in Clients : ReadPromptStore(c)
    \/ \E path \in Paths : \E text \in FileTexts(path) : EditFile(path, text)
    \/ \E path \in Paths : RemoveFile(path)

SpecTemplates == Init /\ [][NextTemplates]_vars

(* import of the module and main() alone, on every environment *)
InitConfig ==
    /\ InitService
    /\ table = {}
    /\ files = InstalledFiles
    /\ render = NoRender
    /\ config \in {Unloaded(env, dotenv) :
                       env \in Environments, dotenv \in DotenvFiles}

(* module import: the two curator settings are parsed, with their
   fallbacks, from the environment as it is before config.env is loaded *)
ImportModule ==
    /\ config.stage = "unloaded"
    /\ config' = [config EXCEPT
            !.stage = "imported",
            !.temperature =
                ParseFloat(config.env[CURATOR_TEMPERATURE_ENV], DefaultTemperature),
            !.max_tokens =
                ParseInt(config.env[CURATOR_MAX_TOKENS_ENV], DefaultMaxTokens)]
    /\ UNCHANGED <<table, clock, files, cache, call, held, render>>

(* main(): load_dotenv("config.env"), then
   port = int(os.getenv("MCP_PORT", "8000")), then server.run *)
Main ==
    /\ config.stage = "imported"
    /\ LET env == LoadDotenv(config.env, config.dotenv)
           text == GetEnv(env, MCP_PORT_ENV, DefaultPort)
       IN  config' =
               IF IsIntLiteral(text)
               THEN [config EXCEPT !.env = env, !.stage = "serving",
                                   !.port = IntValue(text)]
               ELSE [config EXCEPT !.env = env, !.stage = "raised",
                                   !.error = "ValueError"]
    /\ UNCHANGED <<table, clock, files, cache, call, held, render>>

NextConfig == ImportModule \/ Main

SpecConfig == InitConfig /\ [][NextConfig]_vars

(* the rendering of update_cheatsheet alone, on every template made of up
   to MaxTemplate pieces (a placeholder, the tail of one, a letter) and on
   values that hold a placeholder or the head of one *)
HeadOfQuestion == SubSeq(QUESTION_MARK, 1, 6)
TailOfQuestion == SubSeq(QUESTION_MARK, 7, Len(QUESTION_MARK))
RenderPieces ==
    {PREVIOUS_CHEATSHEET_MARK, QUESTION_MARK, MODEL_ANSWER_MARK, OtherMark,
     <<"x">>, TailOfQuestion}

RECURSIVE Flatten(_)
Flatten(pieces) ==
    IF pieces = <<>> THEN <<>> ELSE Head(pieces) \o Flatten(Tail(pieces))

Templates == {Flatten(pieces) : pieces \in SeqsUpTo(RenderPieces, MaxTemplate)}
RenderValues ==
    {<<>>, <<"x">>, QUESTION_MARK, MODEL_ANSWER_MARK, HeadOfQuestion}

InitRender ==
    /\ InitService
    /\ table = {}
    /\ config = ImportedUnset
    /\ files = InstalledFiles
    /\ render \in {[template |-> t, previous |-> p, question |-> q,
                     model_output |-> a, prompt |-> None] :
                       t \in Templates, p \in RenderValues,
                       q \in RenderValues, a \in RenderValues}

(* lines 181-185 of update_cheatsheet on the inputs drawn *)
RenderPrompt ==
    /\ render.prompt = None
    /\ render' = [render EXCEPT !.prompt =
                      Some(Render(render.template, render.previous,
                                  render.question, render.model_output))]
    /\ UNCHANGED <<table, clock, files, cache, call, held, config>>

NextRender == RenderPrompt

SpecRender == InitRender /\ [][NextRender]_vars

(* two clients, each on a session of its own, every operation, on a few
   inputs: texts that normalize to "a" and to the sentinel, a curator output
   with and without a block *)
SessionContents == {<<"a">>, <<" ">>}
SessionOutputs == {<<>>, <<OpenTag, "a", CloseTag>>}

SessionOf == [c \in Clients |-> IF c = "c1" THEN "s1" ELSE "s2"]
NextSessions ==
    \/ \E c \in Clients : Get(c, SessionOf[c])
    \/ \E c \in Clients, content \in SessionContents :
          Set(c, SessionOf[c], content, None)
    \/ \E c \in Clients : PrepareSolveContext(c, SessionOf[c])
    \/ \E c \in Clients : UpdateStart(c, SessionOf[c])
    \/ \E c \in Clients : LookupTemplate(c)
    \/ \E c \in Clients : ReadPromptFile(c)
    \/ \E c \in Clients : ReadPromptStore(c)
    \/ \E c \in Clients : UpdateGenerate(c)
    \/ \E c \in Clients, raw \in SessionOutputs : CuratorReturns(c, raw)
    \/ \E c \in Clients : CuratorRaises(c)
    \/ \E c \in Clients : UpdateCommit(c)

(* two clients calling set, prepare_solve_context and update_cheatsheet
   concurrently on one session, the contents and the texts the curator
   encloses being empty, blank or not *)
SharedContents == {<<>>, <<" ">>, <<"a">>, <<" ", "a">>}
SharedOutputs ==
    {<<>>} \cup {<<OpenTag>> \o content \o <<CloseTag>> :
                    content \in SharedContents}

NextShared ==
    \/ \E c \in Clients, content \in SharedContents :
          \E previous \in PreviousChoices(content) :
              Set(c, "s1", content, previous)
    \/ \E c \in Clients : PrepareSolveContext(c, "s1")
    \/ \E c \in Clients : UpdateStart(c, "s1")
    \/ \E c \in Clients : LookupTemplate(c)
    \/ \E c \in Clients : ReadPromptFile(c)
    \/ \E c \in Clients : ReadPromptStore(c)
    \/ \E c \in Clients : UpdateGenerate(c)
    \/ \E c \in Clients, raw \in SharedOutputs : CuratorReturns(c, raw)
    \/ \E c \in Clients : CuratorRaises(c)
    \/ \E c \in Clients : UpdateCommit(c)

InitShared == Init /\ files = InstalledFiles

SpecShared == InitShared /\ [][NextShared]_vars

(* the store empty, both prompt files present or both missing *)
InitSessions == Init /\ table = {} /\ files \in {InstalledFiles, NoFiles}

SpecSessions == InitSessions /\ [][NextSessions]_vars

----------------------------------------------------------------------------
(* Claims *)

Range(seq) == {seq[i] : i \in 1..Len(seq)}
ContentOf(tbl, session_id) == GetCheatsheet(tbl, session_id)
HasRecord(tbl, session_id) == SelectRows(tbl, session_id) # {}

(* C1: a failed update_cheatsheet call has no store side effect. No step of
   an update_cheatsheet call other than the one that returns ok changes the
   table or the clock; a call whose curator template is not cached and whose
   file is missing ends with the template error, a call whose curator call
   raises ends with the curation error, and get(session) still returns the
   content the call read at its start. *)
C1_FailedUpdateLeavesStore ==
    [][\A c \in Clients :
          /\ (/\ call'[c] # call[c] /\ call'[c].op = "update"
              /\ call'[c].result # "ok") =>
                (table' = table /\ clock' = clock)
          /\ (/\ call[c].pc = "reading" /\ call[c].op = "update"
              /\ files[CURATOR_PROMPT_FILE] = None
              /\ ReadPromptFile(c)) =>
                /\ call'[c].pc = "done"
                /\ call'[c].result = "TemplateNotFound"
                /\ ContentOf(table', call[c].session) = TheValue(call[c].previous)
          /\ CuratorRaises(c) =>
                /\ call'[c].result = "CurationFailed"
                /\ table' = table /\ clock' = clock
                /\ ContentOf(table', call[c].session) = TheValue(call[c].previous)
      ]_vars

C1_Witness ==
    \E c \in Clients :
        /\ call[c].op = "update"
        /\ call[c].result = "CurationFailed"
        /\ HasRecord(table, call[c].session)
        /\ ContentOf(table, call[c].session) # DEFAULT_CHEATSHEET

(* C2: curation never silently erases accumulated knowledge. When the curator
   output holds no cheatsheet block, or a block with no text in it, the
   candidate is the previous content read at the start of the call, the call
   returns ok, nothing is written, and get(session) still returns that
   previous content. *)
C2_MissKeepsPrevious ==
    [][\A c \in Clients :
          /\ (/\ call[c].pc = "curating" /\ call'[c].pc = "curated"
              /\ ~call'[c].found) =>
                call'[c].content = TheValue(call[c].previous)
          /\ (UpdateCommit(c) /\ ~call[c].found) =>
                /\ call'[c].result = "ok"
                /\ table' = table /\ clock' = clock
                /\ ContentOf(table', call[c].session) = TheValue(call[c].previous)
      ]_vars

C2_Witness ==
    \E c \in Clients :
        /\ call[c].op = "update" /\ call[c].pc = "done"
        /\ call[c].result = "ok"
        /\ ~call[c].found
        /\ "upsert" \notin Range(call[c].io)
        /\ HasRecord(table, call[c].session)
        /\ ContentOf(table, call[c].session) = TheValue(call[c].previous)
        /\ ContentOf(table, call[c].session) # DEFAULT_CHEATSHEET

(* C3: in every state reached by set, prepare_solve_context and
   update_cheatsheet calls of two clients on one session, interleaved step
   by step, no stored record has content that is empty or whitespace-only;
   an attempt to store such a value stores the sentinel "(empty)" instead. *)
C3_NoBlankContent == \A r \in table : Strip(r.content) # <<>>

(* a set of a blank content has stored the sentinel over the text of the
   session while an update_cheatsheet call of the other client, which read
   that text, waits for the curator *)
C3_Witness ==
    \E c \in Clients, d \in Clients :
        /\ c # d
        /\ call[c].op = "set" /\ call[c].result = "ok"
        /\ Len(call[c].content) > 0
        /\ Strip(call[c].content) = <<>>
        /\ "upsert" \in Range(call[c].io)
        /\ call[d].op = "update" /\ call[d].pc = "curating"
        /\ call[d].session = call[c].session
        /\ call[d].previous = Some(<<"a">>)
        /\ SelectRows(table, call[c].session) =
               {Row(call[c].session, DEFAULT_CHEATSHEET, 1)}

(* C4, as claimed: set(session, content, previous=content) is a no-op for
   every non-empty session, every content and every store state. *)
C4_SetWithPreviousIsNoOp ==
    [][\A c \in Clients :
          (/\ call'[c].op = "set" /\ call'[c].result = "ok"
           /\ call'[c].previous = Some(call'[c].content)
           /\ Set(c, call'[c].session, call'[c].content, call'[c].previous)) =>
              (table' = table /\ clock' = clock)
      ]_vars

(* C4, amended: set(session, content, previous) is a no-op whenever previous
   equals the normalized content (content trimmed, or the sentinel when the
   trimmed content is empty); set(session, content, previous=content) is
   therefore a no-op exactly for content already in normalized form. *)
C4_SetWithNormalizedPreviousIsNoOp ==
    [][\A c \in Clients :
          (/\ call'[c].op = "set" /\ call'[c].result = "ok"
           /\ \/ call'[c].previous = Some(Normalize(call'[c].content))
              \/ /\ call'[c].previous = Some(call'[c].content)
                 /\ Strip(call'[c].content) = call'[c].content
                 /\ call'[c].content # <<>>
           /\ Set(c, call'[c].session, call'[c].content, call'[c].previous)) =>
              (table' = table /\ clock' = clock)
      ]_vars

C4_Witness ==
    \E c \in Clients :
        /\ call[c].op = "set" /\ call[c].result = "ok"
        /\ call[c].previous = Some(call[c].content)
        /\ call[c].io = <<>>
        /\ HasRecord(table, call[c].session)
        /\ ContentOf(table, call[c].session) # call[c].content

(* C5: round trip. set(session, content) with no previous supplied, followed
   by get(session), returns the content trimmed, or the sentinel when the
   trimmed content is empty, whether or not a record existed before. *)
C5_SetThenGet ==
    [][\A c \in Clients :
          (/\ call'[c].op = "set" /\ call'[c].result = "ok"
           /\ call'[c].previous = None
           /\ Set(c, call'[c].session, call'[c].content, None)) =>
              ContentOf(table', call'[c].session) =
                  IF Strip(call'[c].content) = <<>> THEN DEFAULT_CHEATSHEET
                  ELSE Strip(call'[c].content)
      ]_vars

C5_Witness ==
    \E c \in Clients :
        /\ call[c].op = "set" /\ call[c].result = "ok"
        /\ call[c].previous = None
        /\ Strip(call[c].content) # call[c].content
        /\ Strip(call[c].content) # <<>>
        /\ held[call[c].session] # {}
        /\ ContentOf(table, call[c].session) = Strip(call[c].content)

(* C6: within one update_cheatsheet call the store write is the last step.
   Under any interleaving of two clients, the table changes only in the step
   that ends a call with ok, taken by a call whose curator call has returned
   and whose candidate is extracted; a call writes at most once, and a call
   that has not returned ok has written nothing. *)
IoBeforeWrite ==
    {<<"select", "load_template", "generate">>,
     <<"select", "load_template", "read_file", "generate">>}

WriteIsLast(c) ==
    "upsert" \in Range(call[c].io) =>
        /\ call[c].pc = "done" /\ call[c].result = "ok"
        /\ call[c].io \in {Append(io, "upsert") : io \in IoBeforeWrite}

C6_WriteIsLastStep ==
    [][/\ table' # table =>
             \E c \in Clients :
                 /\ call[c].pc = "curated"
                 /\ call[c].io \in IoBeforeWrite
                 /\ call'[c].pc = "done" /\ call'[c].result = "ok"
                 /\ call'[c].io = Append(call[c].io, "upsert")
                 /\ \A d \in Clients \ {c} : call'[d] = call[d]
       /\ \A c \in Clients : WriteIsLast(c)'
      ]_vars

C6_Witness ==
    \E c \in Clients, d \in Clients :
        /\ c # d
        /\ call[c].op = "update" /\ call[c].result = "ok"
        /\ "upsert" \in Range(call[c].io)
        /\ call[d].pc = "curating"
        /\ call[d].session = call[c].session
        /\ call[d].previous = call[c].previous

(* C7, as claimed: over any sequence of update_cheatsheet calls on a session,
   the stored content is never a version the session held earlier and had
   since replaced. *)
C7_NoRollback ==
    \A s \in NamedSessions : ContentOf(table, s) \notin held[s]

(* C7, amended: an update_cheatsheet call never takes the session back to an
   earlier version on its own. When a call changes the stored content, the
   new content is the non-empty text extracted from that call's curator
   output and differs from the content the call read; the session returns to
   a version it held earlier (the sentinel text included) only when the
   curator output itself holds that text, and a record once written is never
   removed. *)
C7_RollbackOnlyByCurator ==
    [][\A s \in NamedSessions :
          /\ HasRecord(table, s) => HasRecord(table', s)
          /\ ContentOf(table', s) # ContentOf(table, s) =>
                \E c \in Clients :
                    /\ call[c].pc = "curated" /\ call'[c].pc = "done"
                    /\ call[c].session = s
                    /\ call[c].found
                    /\ call[c].content # TheValue(call[c].previous)
                    /\ ContentOf(table', s) = call[c].content
                    /\ Strip(call[c].content) = call[c].content
                    /\ call[c].content # <<>>
      ]_vars

C7_Witness ==
    \E c \in Clients :
        /\ call[c].op = "update" /\ call[c].result = "ok"
        /\ call[c].found
        /\ "upsert" \in Range(call[c].io)
        /\ ContentOf(table, call[c].session) = call[c].content
        /\ call[c].content \in held[call[c].session]

(* C8: lost update is last-write-wins. A call whose candidate differs from
   the previous content it read writes its candidate whatever the store holds
   by then, so of two concurrent calls on one session that read the same
   previous content and derive different candidates, the one whose set
   commits last decides the stored content, and both return ok. *)
C8_LastWriteWins ==
    [][\A c \in Clients :
          (call[c].pc = "curated" /\ call'[c].pc = "done"
              /\ call[c].content # TheValue(call[c].previous)) =>
              /\ call'[c].result = "ok"
              /\ ContentOf(table', call[c].session) = call[c].content
              /\ \A r \in SelectRows(table', call[c].session) :
                    r.updated_at = clock' /\ clock' \in CurrentTimestamp
      ]_vars

C8_Witness ==
    \E c \in Clients, d \in Clients :
        /\ c # d
        /\ call[c].op = "update" /\ call[c].result = "ok"
        /\ call[d].op = "update" /\ call[d].result = "ok"
        /\ call[c].session = call[d].session
        /\ call[c].previous = call[d].previous
        /\ call[c].content # call[d].content
        /\ "upsert" \in Range(call[c].io)
        /\ "upsert" \in Range(call[d].io)
        /\ ContentOf(table, call[c].session) = call[d].content
        /\ \A r \in table : r.content # call[c].content

(* C9: an empty session_id is rejected before any I/O. prepare_solve_context
   and update_cheatsheet on "" end with the invalid-session error with no
   store read or write, no template load and no curator call, and the store
   and the template cache are unchanged. *)
C9_EmptySessionRejected ==
    [][\A c \in Clients :
          (PrepareSolveContext(c, "") \/ UpdateStart(c, "")) =>
              /\ call'[c].pc = "done"
              /\ call'[c].result = "InvalidSession"
              /\ call'[c].io = <<>>
              /\ UNCHANGED <<table, clock, cache, held>>
      ]_vars

C9_Witness ==
    \E c \in Clients :
        /\ call[c].op = "update" /\ call[c].session = ""
        /\ call[c].result = "InvalidSession"
        /\ call[c].io = <<>>
        /\ table # {}
        /\ cache[CURATOR_PROMPT_FILE] = None

(* C10: reads never mutate. No step of a get or prepare_solve_context call
   changes the table or the clock; on a session with no record they read the
   sentinel and create no record, and prepare_solve_context returns what it
   read. *)
C10_ReadsNeverMutate ==
    [][\A c \in Clients :
          (call'[c] # call[c] /\ call'[c].op \in {"get", "prepare"}) =>
              /\ table' = table /\ clock' = clock
              /\ (/\ call'[c].session # ""
                  /\ ~HasRecord(table, call'[c].session)
                  /\ \/ Get(c, call'[c].session)
                     \/ PrepareSolveContext(c, call'[c].session)) =>
                    /\ call'[c].content = DEFAULT_CHEATSHEET
                    /\ ~HasRecord(table', call'[c].session)
              /\ (call[c].op = "prepare" /\ call[c].pc # "done"
                    /\ call'[c].result = "ok") =>
                    call'[c].content = call[c].content
      ]_vars

C10_Witness ==
    \E c \in Clients :
        /\ call[c].op = "prepare" /\ call[c].result = "ok"
        /\ call[c].content = DEFAULT_CHEATSHEET
        /\ ~HasRecord(table, call[c].session)
        /\ \A s \in NamedSessions : held[s] = {}

(* C11: end-to-end success. With no concurrent writer, an update_cheatsheet
   call whose curator output holds a block with non-empty text X derives X
   (the enclosed text, trimmed) as its candidate, returns ok and leaves the
   store holding X for the session, whether or not the session had a record;
   a prepare_solve_context call on the session that then returns, returns the
   stored content as its cheatsheet. *)
C11_UpdateThenPrepare ==
    [][\A c \in Clients :
          /\ (call[c].pc = "curating" /\ call'[c].pc = "curated"
                 /\ call'[c].found) =>
                \A raw \in RawOutputs :
                    CuratorReturns(c, raw) =>
                        /\ call'[c].content = ExtractCheatsheet(raw, <<>>)
                        /\ call'[c].content # <<>>
          /\ (UpdateCommit(c) /\ call[c].found) =>
                /\ call'[c].result = "ok"
                /\ ContentOf(table', call[c].session) = call[c].content
          /\ (/\ call[c].op = "prepare" /\ call[c].pc # "done"
              /\ call'[c].pc = "done" /\ call'[c].result = "ok") =>
                call'[c].content = ContentOf(table', call'[c].session)
      ]_vars

C11_Witness ==
    \E c \in Clients :
        /\ call[c].op = "update" /\ call[c].pc = "done"
        /\ call[c].result = "ok"
        /\ call[c].found
        /\ "upsert" \in Range(call[c].io)
        /\ ContentOf(table, call[c].session) = call[c].content
        /\ call[c].content # DEFAULT_CHEATSHEET
        /\ held[call[c].session] \ {DEFAULT_CHEATSHEET} # {}

(* C12: absence of a record is observationally equivalent to a stored
   sentinel. For every reachable store in which a session s has no record,
   and its twin that differs only in holding the sentinel "(empty)" for s:
   get(s) and prepare_solve_context(s) return the same content on both and
   leave both as they are; update_cheatsheet(s) reads the same previous
   content on both, derives the same candidate from every curator output,
   and leaves get(s) equal on both, the two stores being identical after a
   write and still twins after a skipped one. By induction the same sequence
   of calls yields the same return values and the same get(s) at every
   step. *)
C12_AbsentIsSentinel ==
    \A s \in OneSession \ {""} :
        ~HasRecord(table, s) =>
            LET twin == table \cup {Row(s, DEFAULT_CHEATSHEET, 0)}
                cur1 == GetCheatsheet(table, s)
                cur2 == GetCheatsheet(twin, s)
            IN  /\ cur1 = cur2
                /\ TableAfterGet(table, s) = table
                /\ TableAfterGet(twin, s) = twin
                /\ \A raw \in RawOutputs, now \in CurrentTimestamp :
                      LET new1 == NewCheatsheet(raw, cur1)
                          new2 == NewCheatsheet(raw, cur2)
                          after1 == SetCheatsheet(table, s, new1, Some(cur1), now)
                          after2 == SetCheatsheet(twin, s, new2, Some(cur2), now)
                      IN  /\ new1 = new2
                          /\ GetCheatsheet(after1, s) = GetCheatsheet(after2, s)
                          /\ \/ after1 = after2
                             \/ after1 = table /\ after2 = twin

C12_Witness ==
    \E c \in Clients :
        /\ call[c].op = "update" /\ call[c].pc = "done"
        /\ call[c].result = "ok"
        /\ call[c].found
        /\ call[c].content = DEFAULT_CHEATSHEET
        /\ call[c].previous = Some(DEFAULT_CHEATSHEET)
        /\ ~HasRecord(table, call[c].session)

(* C17: updated_at is set on every write that is performed and only then.
   A set that is not skipped, made directly or by update_cheatsheet, leaves
   the session with one record whose updated_at is the time the write read,
   even when the content written equals the content stored. The timestamp
   being a logical clock, the time a write reads is later than the time of
   every write before it, so later than every stamp in the store: such a
   write advances the updated_at of the record. Every other step (get,
   prepare, a skipped set, a failed update, an update that falls back to the
   previous content) leaves every record, updated_at included, as it was. *)
C17_StampedOnEveryWrite ==
    [][LET Writes(c) ==
               \/ /\ call'[c].op = "set" /\ call'[c].result = "ok"
                  /\ ~SkipsWrite(call'[c].content, call'[c].previous)
                  /\ Set(c, call'[c].session, call'[c].content, call'[c].previous)
               \/ /\ UpdateCommit(c)
                  /\ ~SkipsWrite(call[c].content, call[c].previous)
           LogicalClock == \A r \in table : r.updated_at < clock'
           Stamped(session_id) ==
               /\ HasRecord(table', session_id)
               /\ \A r \in SelectRows(table', session_id) : r.updated_at = clock'
               /\ LogicalClock =>
                     \A before \in SelectRows(table, session_id),
                        after \in SelectRows(table', session_id) :
                           before.updated_at < after.updated_at
       IN  /\ \A c \in Clients : Stamped(call'[c].session) \/ ~Writes(c)
           /\ (table' = table /\ clock' = clock) \/ \E c \in Clients : Writes(c)
      ]_vars

C17_Witness ==
    \E c \in Clients :
        /\ call[c].op = "set" /\ call[c].result = "ok"
        /\ call[c].previous = None
        /\ "upsert" \in Range(call[c].io)
        /\ held[call[c].session] = {}
        /\ Normalize(call[c].content) = <<"a">>
        /\ \E r \in table :
              /\ r.session_id = call[c].session
              /\ r.content = Normalize(call[c].content)
              /\ r.updated_at = 1

(* C18: an update_cheatsheet call whose candidate equals the previous content
   it read performs no write at all. Under any interleaving of two clients,
   the step that ends such a call leaves the table and the clock unchanged and
   returns ok, so content that another call committed between this call's
   read and its set stays in the store. *)
C18_UnchangedCandidateWritesNothing ==
    [][\A c \in Clients :
          (UpdateCommit(c) /\ call[c].content = TheValue(call[c].previous)) =>
              /\ call'[c].result = "ok"
              /\ call'[c].io = call[c].io
              /\ table' = table /\ clock' = clock
      ]_vars

C18_Witness ==
    \E c \in Clients, d \in Clients :
        /\ c # d
        /\ call[c].op = "update" /\ call[c].pc = "done" /\ call[c].result = "ok"
        /\ call[c].content = TheValue(call[c].previous)
        /\ "upsert" \notin Range(call[c].io)
        /\ call[d].op = "update" /\ call[d].pc = "done" /\ call[d].result = "ok"
        /\ call[d].session = call[c].session
        /\ call[d].previous = call[c].previous
        /\ "upsert" \in Range(call[d].io)
        /\ ContentOf(table, call[c].session) = call[d].content
        /\ ContentOf(table, call[c].session) # call[c].content

(* C20: the upsert is atomic per session. Under any interleaving of the set
   calls of two clients, the table holds at most one row per session_id, and
   whenever the row of a session changes, the new row is the one written by
   the set call of that step: its content is exactly the normalized content
   that call was given, never a mixture of two calls' contents and never a
   second row. *)
C20_OneRowPerSession ==
    [][\A s \in NamedSessions :
          /\ Cardinality(SelectRows(table', s)) <= 1
          /\ SelectRows(table', s) # SelectRows(table, s) =>
                \E c \in Clients :
                    /\ UpdateCommit(c)
                    /\ call[c].session = s
                    /\ SelectRows(table', s) =
                           {Row(s, Normalize(call[c].content), clock')}
      ]_vars

C20_Witness ==
    \E c \in Clients, d \in Clients :
        /\ c # d
        /\ call[c].session = call[d].session
        /\ "upsert" \in Range(call[c].io)
        /\ "upsert" \in Range(call[d].io)
        /\ call[c].content # call[d].content
        /\ SelectRows(table, call[c].session) =
               {Row(call[c].session, Normalize(call[d].content), 1)}

(* C19: sessions are isolated. Under any interleaving of two clients, a step
   of a get, set, prepare_solve_context or update_cheatsheet call on session
   s, whether the call succeeds or fails, leaves the record of every other
   session t # s as it was: present or absent, content and updated_at. *)
C19_SessionsIsolated ==
    [][\A c \in Clients :
          LET s == call'[c].session
              Acts == \/ call[c].pc # "done" /\ call'[c] # call[c]
                      \/ call'[c].op = "get" /\ Get(c, s)
                      \/ call'[c].op = "set"
                            /\ Set(c, s, call'[c].content, call'[c].previous)
                      \/ call'[c].op = "prepare" /\ PrepareSolveContext(c, s)
                      \/ call'[c].op = "update" /\ UpdateStart(c, s)
          IN  Acts =>
                  \A t \in NamedSessions \ {s} :
                      SelectRows(table', t) = SelectRows(table, t)
      ]_vars

C19_Witness ==
    \E c \in Clients, d \in Clients :
        /\ c # d
        /\ call[c].op = "update" /\ call[c].pc = "done" /\ call[c].result = "ok"
        /\ call[c].session = "s2"
        /\ "upsert" \in Range(call[c].io)
        /\ call[d].op = "update" /\ call[d].result = "CurationFailed"
        /\ call[d].session = "s1"
        /\ SelectRows(table, "s1") = {Row("s1", DEFAULT_CHEATSHEET, 0)}
        /\ SelectRows(table, "s2") = {Row("s2", <<"a">>, 1)}

(* the single simultaneous substitution the specification describes: the
   template is read once from the left, each occurrence of a bound
   placeholder becomes its value, every other character stays, and the
   values are not looked into *)
StartsWith(s, prefix) ==
    Len(s) >= Len(prefix) /\ SubSeq(s, 1, Len(prefix)) = prefix

RECURSIVE Substitute(_, _, _, _)
Substitute(template, previous, question, model_output) ==
    LET After(marker) == SubSeq(template, Len(marker) + 1, Len(template))
    IN  IF template = <<>> THEN <<>>
        ELSE IF StartsWith(template, PREVIOUS_CHEATSHEET_MARK)
        THEN previous \o Substitute(After(PREVIOUS_CHEATSHEET_MARK),
                                    previous, question, model_output)
        ELSE IF StartsWith(template, QUESTION_MARK)
        THEN question \o Substitute(After(QUESTION_MARK),
                                    previous, question, model_output)
        ELSE IF StartsWith(template, MODEL_ANSWER_MARK)
        THEN model_output \o Substitute(After(MODEL_ANSWER_MARK),
                                        previous, question, model_output)
        ELSE <<Head(template)>> \o Substitute(Tail(template),
                                              previous, question, model_output)

(* C14, as claimed: rendering replaces every occurrence of each bound
   placeholder by its value and leaves everything else unchanged; unbound
   placeholders stay and the substituted values appear verbatim, that is, the
   rendered prompt equals the single simultaneous substitution over the
   template, for every template and all values over the alphabet of the
   placeholders, their pieces and a letter. *)
C14_RenderIsSimultaneous ==
    render.prompt # None =>
        TheValue(render.prompt) =
            Substitute(render.template, render.previous,
                       render.question, render.model_output)

(* the calls of language_model.generate in the I/O a tool call has made *)
Generates(io) == Cardinality({i \in 1..Len(io) : io[i] = "generate"})

(* C16: each update_cheatsheet call invokes the curator at most once and
   never again after a failure. The one call is made with a history of
   exactly one message, of role user, whose content is the curator template
   rendered with the previous content, the question and the model output of
   this call, and with allow_code_execution false; when the curator raises,
   the call ends with that failure and no further curator call. *)
C16_CuratorCalledOnce ==
    [][\A c \in Clients :
          call'[c] # call[c] =>
              /\ Generates(call'[c].io) <= 1
              /\ call'[c].pc = "curating" =>
                    /\ call'[c].op = "update"
                    /\ Generates(call'[c].io) = 1
                    /\ call'[c].request # None
                    /\ LET request == TheValue(call'[c].request)
                       IN  /\ Len(request.history) = 1
                           /\ request.history[1].role = "user"
                           /\ request.history[1].content =
                                  Render(TheValue(call'[c].template),
                                         TheValue(call'[c].previous),
                                         call'[c].question, call'[c].model_output)
                           /\ request.allow_code_execution = FALSE
              /\ call[c].pc = "curating" =>
                    /\ call'[c].io = call[c].io
                    /\ \/ /\ call'[c].pc = "curated"
                          /\ call'[c].request = call[c].request
                       \/ /\ CuratorRaises(c)
                          /\ call'[c].pc = "done"
                          /\ call'[c].result = "CurationFailed"
      ]_vars

C16_Witness ==
    \E c \in Clients, d \in Clients :
        /\ call[c].op = "update" /\ call[c].result = "CurationFailed"
        /\ Generates(call[c].io) = 1
        /\ call[d].pc = "curated"
        /\ call[d].previous # Some(DEFAULT_CHEATSHEET)
        /\ call[d].request =
               Some([history |->
                        <<[role |-> "user",
                           content |-> <<"c">> \o TheValue(call[d].previous)
                                          \o call[d].question
                                          \o call[d].model_output]>>,
                     temperature |->
                         [special |-> "", sign |-> 1, mantissa |-> <<"0">>,
                          exponent |-> 0],
                     max_tokens |-> <<"4", "0", "9", "6">>,
                     allow_code_execution |-> FALSE])

(* C13, as claimed: a template is loaded at most once per path and then
   frozen. Once a load of a path has populated the cache, the cached text of
   that path never differs again, whatever happens to the file and however
   first loads race; and every load of the path that begins from then on
   returns that text without reading the file. *)
C13_LoadedOnceThenFrozen ==
    [][\A path \in Paths :
          cache[path] # None =>
              /\ cache'[path] = cache[path]
              /\ \A c \in Clients :
                    ReadPromptStart(c, path) =>
                        /\ call'[c].pc = "done" /\ call'[c].result = "ok"
                        /\ call'[c].template = cache[path]
                        /\ call'[c].io = <<>>
      ]_vars

(* C15, as claimed: every numeric configuration value falls back silently to
   its documented default on parse failure. For the curation temperature, the
   maximum output length and the service port, an environment value that is
   unset or does not parse yields the default (0.0, 4096, 8000), and neither
   import nor startup ends with an error. *)
C15_NumericConfigFallsBack ==
    LET Unparsed(name, IsLiteral(_)) ==
            config.env[name] = None \/ ~IsLiteral(TheValue(config.env[name]))
    IN  /\ config.stage # "raised"
        /\ config.stage \in {"imported", "serving"} =>
              /\ Unparsed(CURATOR_TEMPERATURE_ENV, IsFloatLiteral) =>
                    config.temperature =
                        [special |-> "", sign |-> 1, mantissa |-> <<"0">>,
                         exponent |-> 0]
              /\ Unparsed(CURATOR_MAX_TOKENS_ENV, IsIntLiteral) =>
                    config.max_tokens = <<"4", "0", "9", "6">>
        /\ config.stage = "serving" =>
              (Unparsed(MCP_PORT_ENV, IsIntLiteral) =>
                   config.port = <<"8", "0", "0", "0">>)

====
